---- MODULE Spec2Model ----
(***************************************************************************)
(* Model of ChessboardProvider (src/src/context/chessboard-context.js):    *)
(* the position reconciliation effect, the drop handler, the premove queue *)
(* and the animation timeout.                                              *)
(*                                                                         *)
(* One action is one event-loop task: the position effect (with the        *)
(* cleanup of the previous effect run), a call of handleSetPosition, a     *)
(* call of clearPremoves, the firing of an animation timeout, the unmount. *)
(* The state setters called by a task are applied together at its end.     *)
(***************************************************************************)
EXTENDS Integers, Sequences, FiniteSets, TLC

\* ---------------------------------------------------------------- bounds
MaxQueue == 2        \* longest premove queue explored
MaxTimers == 2       \* number of setTimeout calls explored

\* ------------------------------------------------------------ value space
Squares == {"e2", "e4", "e5", "e7"}
\* a drop outside the board has targetSq undefined; used as an object key it
\* is the key "undefined"
OffBoard == "undefined"
Spare == "spare"
Keys == Squares \cup {OffBoard}

\* a piece is a two character string, colour then type
wP == <<"w", "P">>
bP == <<"b", "P">>
Empty == <<>>
Undefined == "undefined"
NoTimeout == 0

PieceColour(piece) == piece[1]

EmptyPosition == [k \in Keys |-> Empty]

Pos(e2, e4, e5, e7) ==
  [k \in Keys |-> CASE k = "e2" -> e2 [] k = "e4" -> e4
                    [] k = "e5" -> e5 [] k = "e7" -> e7
                    [] OTHER -> Empty]

StartPosition == Pos(wP, Empty, Empty, bP)

\* the positions the consumer supplies through the position prop
ExternalPositions ==
  { StartPosition,
    Pos(Empty, wP, Empty, bP),
    Pos(bP, wP, bP, Empty) }

\* the positions the component is constructed with
InitialPositions == {StartPosition, Pos(Empty, wP, Empty, bP)}

\* the drops the presentation layer reports: (sourceSq, targetSq, piece)
DropInputs ==
  { <<"e2", "e4", wP>>,
    <<"e7", "e5", bP>>,
    <<"e2", "e2", wP>>,
    <<Spare, "e5", wP>>,
    <<"e4", OffBoard, wP>> }

\* ------------------------------------------------- ../functions (imported)
convertPositionToObject(p) == [k \in Keys |-> p[k]]

getPositionDifferences(cur, new) ==
  [ removed |-> [k \in Keys |-> IF cur[k] # Empty /\ new[k] # cur[k]
                                THEN cur[k] ELSE Empty],
    added   |-> [k \in Keys |-> IF new[k] # Empty /\ cur[k] # new[k]
                                THEN new[k] ELSE Empty] ]

isDifferentFromStart(p) == p # StartPosition

ObjectKeys(obj) == {k \in Keys : obj[k] # Empty}

NoDifferences == [removed |-> EmptyPosition, added |-> EmptyPosition]

\* ------------------------------------------------------------------ state
VARIABLES
  lifecycle,              \* "rendered" (before the first effect), "mounted", "unmounted"
  position,               \* the position prop, as last supplied
  arePremovesAllowed,     \* prop
  expectingAlternateMoves,\* prop
  onPieceDropLength,      \* prop: onPieceDrop.length
  dropOffBoardAction,     \* prop
  currentPosition,
  positionDifferences,
  lastPieceColour,
  premoves,
  premovesRef,
  manualDrop,
  previousTimeout,
  waitingForAnimation,
  timers,                 \* the pending timeouts, with what their closures captured
  nextTimerId,            \* the id the next setTimeout returns
  cleanupTimeout,         \* previousTimeout as captured by the last effect's cleanup
  last                    \* the task that ran last and the callbacks it invoked

props == <<arePremovesAllowed, expectingAlternateMoves, onPieceDropLength, dropOffBoardAction>>
state == <<currentPosition, positionDifferences, lastPieceColour, premoves,
           manualDrop, previousTimeout, waitingForAnimation>>
vars == <<lifecycle, position, props, state, premovesRef, timers, nextTimerId,
          cleanupTimeout, last>>

NoTask ==
  [ op |-> "none", sourceSq |-> "", targetSq |-> "", piece |-> Empty,
    onPieceDrop |-> <<>>, isValidMove |-> <<>>, getPositionObject |-> <<>>,
    attemptPremove |-> <<>>, timer |-> NoTimeout,
    waiting |-> FALSE, manual |-> FALSE, queued |-> 0, mover |-> Undefined,
    captured |-> <<>> ]

\* the record of a task: its name and the flags, the queue length and the
\* mover colour it found
Task(op) ==
  [NoTask EXCEPT !.op = op, !.waiting = waitingForAnimation, !.manual = manualDrop,
                 !.queued = Len(premovesRef), !.mover = lastPieceColour]

Init ==
  /\ lifecycle = "rendered"
  /\ position \in InitialPositions
  /\ arePremovesAllowed \in BOOLEAN
  /\ expectingAlternateMoves \in BOOLEAN
  /\ onPieceDropLength \in {0, 3}
  /\ dropOffBoardAction \in {"snapback", "trash"}
  /\ currentPosition = convertPositionToObject(position)
  /\ positionDifferences = NoDifferences
  /\ lastPieceColour = Undefined
  /\ premoves = <<>>
  /\ premovesRef = <<>>
  /\ manualDrop = FALSE
  /\ previousTimeout = NoTimeout
  /\ waitingForAnimation = FALSE
  /\ timers = {}
  /\ nextTimerId = 1
  /\ cleanupTimeout = NoTimeout
  /\ last = NoTask

\* ----------------------------------------------------------------- timers
clearTimeout(ts, id) == {t \in ts : t.id # id}

\* ------------------------------------------------ effect on [position]
\* line 100-101 without the test of the number of added squares
NewPieceColourChoices_AnyCount(differences) ==
  LET addedKeys == ObjectKeys(differences.added) IN
  IF addedKeys # {}
  THEN {PieceColour(differences.added[k]) : k \in addedKeys}
  ELSE {Undefined}

\* line 100-101: the colour of the first entry of differences.added when at
\* most two squares were added. Which entry is first is the key order of the
\* supplied position, an input: every added square can be the first one.
NewPieceColourChoices(differences) ==
  LET addedKeys == ObjectKeys(differences.added) IN
  IF Cardinality(addedKeys) <= 2 /\ addedKeys # {}
  THEN {PieceColour(differences.added[k]) : k \in addedKeys}
  ELSE {Undefined}

\* lines 108-110 left out
CancelPrevious_Forgotten(ts, prevTimeout) == ts

\* lines 108-110
CancelPrevious(ts, prevTimeout) ==
  IF prevTimeout # NoTimeout THEN clearTimeout(ts, prevTimeout) ELSE ts

\* line 121 without the test of lastPieceColour
OverridesColour_AlsoUndefined(newPosition, colour) ==
  isDifferentFromStart(newPosition)

\* line 121
OverridesColour(newPosition, colour) ==
  isDifferentFromStart(newPosition) /\ colour # Undefined

\* lines 105-110 cancelling the handle the cleanup captured instead of the
\* one in previousTimeout
AnimatingBranch_StaleHandle(newPosition, ts) ==
  /\ currentPosition' = newPosition
  /\ waitingForAnimation' = FALSE
  /\ timers' = CancelPrevious(ts, cleanupTimeout)
  /\ UNCHANGED <<positionDifferences, lastPieceColour, previousTimeout, nextTimerId>>

\* lines 105-110: an update arrives before the animation is over
AnimatingBranch(newPosition, ts) ==
  /\ currentPosition' = newPosition
  /\ waitingForAnimation' = FALSE
  /\ timers' = CancelPrevious(ts, previousTimeout)
  /\ UNCHANGED <<positionDifferences, lastPieceColour, previousTimeout, nextTimerId>>

\* lines 113-115 without the setCurrentPosition of line 114
ManualDropBranch_NotAdopted(newPosition, ts) ==
  /\ waitingForAnimation' = FALSE
  /\ timers' = ts
  /\ UNCHANGED <<currentPosition, positionDifferences, lastPieceColour,
                 previousTimeout, nextTimerId>>

\* lines 113-115: the update follows a manual drop
ManualDropBranch(newPosition, ts) ==
  /\ currentPosition' = newPosition
  /\ waitingForAnimation' = FALSE
  /\ timers' = ts
  /\ UNCHANGED <<positionDifferences, lastPieceColour, previousTimeout, nextTimerId>>

\* lines 116-134 adopting the position when the update arrives
AnimateBranch_Immediate(newPosition, differences, newPieceColour, ts) ==
  /\ nextTimerId <= MaxTimers
  /\ lastPieceColour' = IF OverridesColour(newPosition, lastPieceColour)
                        THEN newPieceColour ELSE lastPieceColour
  /\ positionDifferences' = differences
  /\ waitingForAnimation' = TRUE
  /\ timers' = ts \cup {[id |-> nextTimerId, newPosition |-> newPosition,
                         newPieceColour |-> newPieceColour, premoves |-> premoves]}
  /\ previousTimeout' = nextTimerId
  /\ nextTimerId' = nextTimerId + 1
  /\ currentPosition' = newPosition

\* lines 116-134: the update is animated and committed by a timeout
AnimateBranch(newPosition, differences, newPieceColour, ts) ==
  /\ nextTimerId <= MaxTimers
  /\ lastPieceColour' = IF OverridesColour(newPosition, lastPieceColour)
                        THEN newPieceColour ELSE lastPieceColour
  /\ positionDifferences' = differences
  /\ waitingForAnimation' = TRUE
  /\ timers' = ts \cup {[id |-> nextTimerId, newPosition |-> newPosition,
                         newPieceColour |-> newPieceColour, premoves |-> premoves]}
  /\ previousTimeout' = nextTimerId
  /\ nextTimerId' = nextTimerId + 1
  /\ UNCHANGED currentPosition

\* lines 97-146: the effect body, run with the timeouts left by the cleanup
\* of the previous run
PositionEffect(newPosition, ts) ==
  LET differences == getPositionDifferences(currentPosition, newPosition) IN
  /\ \E newPieceColour \in NewPieceColourChoices(differences) :
       IF waitingForAnimation
       THEN AnimatingBranch(newPosition, ts)
       ELSE IF manualDrop
            THEN ManualDropBranch(newPosition, ts)
            ELSE AnimateBranch(newPosition, differences, newPieceColour, ts)
  /\ manualDrop' = FALSE
  /\ cleanupTimeout' = previousTimeout
  /\ UNCHANGED <<premoves, premovesRef, props>>

\* the first run of the effect, after the first render
Mount ==
  /\ lifecycle = "rendered"
  /\ lifecycle' = "mounted"
  /\ PositionEffect(convertPositionToObject(position), timers)
  /\ last' = [Task("mount") EXCEPT
                            !.getPositionObject = <<convertPositionToObject(position)>>]
  /\ UNCHANGED position

\* lines 143-145: the cleanup returned by the previous run of the effect
EffectCleanup(ts) == clearTimeout(ts, cleanupTimeout)

\* the position prop changes: cleanup of the previous run, then the effect
ExternalUpdate(p) ==
  /\ lifecycle = "mounted"
  /\ position' = p
  /\ PositionEffect(convertPositionToObject(p), EffectCleanup(timers))
  /\ last' = [Task("externalUpdate") EXCEPT
                            !.getPositionObject = <<convertPositionToObject(p)>>]
  /\ UNCHANGED lifecycle

\* ------------------------------------------------------- clearPremoves
\* lines 223-227 without the setLastPieceColour of line 224
ClearPremoves_KeepsColour ==
  /\ lifecycle = "mounted"
  /\ premovesRef' = <<>>
  /\ premoves' = <<>>
  /\ last' = Task("clearPremoves")
  /\ UNCHANGED <<lifecycle, position, props, currentPosition, positionDifferences,
                 lastPieceColour, manualDrop, previousTimeout, waitingForAnimation,
                 timers, nextTimerId, cleanupTimeout>>

\* lines 223-227; also the imperative handle of lines 79-83
ClearPremoves ==
  /\ lifecycle = "mounted"
  /\ lastPieceColour' = Undefined
  /\ premovesRef' = <<>>
  /\ premoves' = <<>>
  /\ last' = Task("clearPremoves")
  /\ UNCHANGED <<lifecycle, position, props, currentPosition, positionDifferences,
                 manualDrop, previousTimeout, waitingForAnimation, timers,
                 nextTimerId, cleanupTimeout>>

\* --------------------------------------------------- handleSetPosition
\* line 152 without the turn alternation test
IsIgnoredDrop_SameSquareOnly(sourceSq, targetSq, piece) ==
  sourceSq = targetSq

\* line 152
IsIgnoredDrop(sourceSq, targetSq, piece) ==
  \/ sourceSq = targetSq
  \/ (~arePremovesAllowed /\ expectingAlternateMoves
        /\ lastPieceColour = PieceColour(piece))

\* line 158 without the test of the queue length
IsPremoveDrop_ColourOnly(piece) ==
  arePremovesAllowed /\ lastPieceColour = PieceColour(piece)

\* line 158
IsPremoveDrop(piece) ==
  arePremovesAllowed
    /\ (lastPieceColour = PieceColour(piece) \/ Len(premovesRef) > 0)

\* line 167 left out
IsBlockedByAnimation_Never == FALSE

\* line 167
IsBlockedByAnimation == waitingForAnimation

\* line 175 taking the direct branch whatever the arity
HasValidation_Never == FALSE

\* line 175
HasValidation == onPieceDropLength # 0

\* delete obj[key]
DeleteKey(obj, key) == IF key \in Keys THEN [obj EXCEPT ![key] = Empty] ELSE obj

\* lines 169, 179-190 without the delete of lines 185-187
DropPosition_KeepSource(pos, sourceSq, targetSq, piece) ==
  LET trashed == IF dropOffBoardAction = "trash" /\ targetSq = OffBoard
                 THEN DeleteKey(pos, sourceSq) ELSE pos
  IN [trashed EXCEPT ![targetSq] = piece]

\* lines 169, 179-190: the position a drop without validation produces
DropPosition(pos, sourceSq, targetSq, piece) ==
  LET trashed == IF dropOffBoardAction = "trash" /\ targetSq = OffBoard
                 THEN DeleteKey(pos, sourceSq) ELSE pos
      lifted  == IF sourceSq # Spare THEN DeleteKey(trashed, sourceSq) ELSE trashed
  IN [lifted EXCEPT ![targetSq] = piece]

DropCall(sourceSq, targetSq, piece) ==
  [sourceSq |-> sourceSq, targetSq |-> targetSq, piece |-> piece]

DropTask(sourceSq, targetSq, piece) ==
  [Task("handleSetPosition") EXCEPT !.sourceSq = sourceSq,
                 !.targetSq = targetSq, !.piece = piece]

\* lines 158-164 putting the new entry in front of the queue
QueuePremove_AtHead(sourceSq, targetSq, piece) ==
  /\ Len(premovesRef) < MaxQueue
  /\ premovesRef' = <<DropCall(sourceSq, targetSq, piece)>> \o premovesRef
  /\ premoves' = <<DropCall(sourceSq, targetSq, piece)>> \o premovesRef
  /\ last' = DropTask(sourceSq, targetSq, piece)
  /\ UNCHANGED <<currentPosition, lastPieceColour, manualDrop>>

\* lines 158-164 without the assignment to premovesRef.current of line 161
QueuePremove_StateOnly(sourceSq, targetSq, piece) ==
  /\ Len(premoves) < MaxQueue
  /\ premoves' = Append(premoves, DropCall(sourceSq, targetSq, piece))
  /\ last' = DropTask(sourceSq, targetSq, piece)
  /\ UNCHANGED <<currentPosition, lastPieceColour, manualDrop, premovesRef>>

\* lines 158-164
QueuePremove(sourceSq, targetSq, piece) ==
  /\ Len(premovesRef) < MaxQueue
  /\ premovesRef' = Append(premovesRef, DropCall(sourceSq, targetSq, piece))
  /\ premoves' = Append(premovesRef, DropCall(sourceSq, targetSq, piece))
  /\ last' = DropTask(sourceSq, targetSq, piece)
  /\ UNCHANGED <<currentPosition, lastPieceColour, manualDrop>>

\* lines 169-195
LiveDrop(sourceSq, targetSq, piece, isValidMove) ==
  /\ manualDrop' = TRUE
  /\ IF HasValidation
     THEN /\ UNCHANGED currentPosition
          /\ IF isValidMove
             THEN /\ lastPieceColour' = PieceColour(piece)
                  /\ UNCHANGED <<premoves, premovesRef>>
             ELSE /\ lastPieceColour' = Undefined
                  /\ premovesRef' = <<>>
                  /\ premoves' = <<>>
          /\ last' = [DropTask(sourceSq, targetSq, piece) EXCEPT
                        !.onPieceDrop = <<DropCall(sourceSq, targetSq, piece)>>,
                        !.isValidMove = <<isValidMove>>,
                        !.getPositionObject = <<currentPosition>>]
     ELSE /\ currentPosition' = DropPosition(currentPosition, sourceSq, targetSq, piece)
          /\ lastPieceColour' = PieceColour(piece)
          /\ UNCHANGED <<premoves, premovesRef>>
          /\ last' = [DropTask(sourceSq, targetSq, piece) EXCEPT
                        !.getPositionObject =
                           <<DropPosition(currentPosition, sourceSq, targetSq, piece)>>]

\* lines 149-196
HandleSetPosition(sourceSq, targetSq, piece) ==
  /\ lifecycle = "mounted"
  /\ IF IsIgnoredDrop(sourceSq, targetSq, piece)
     THEN /\ last' = DropTask(sourceSq, targetSq, piece)
          /\ UNCHANGED <<currentPosition, lastPieceColour, manualDrop, premoves, premovesRef>>
     ELSE IF IsPremoveDrop(piece)
     THEN QueuePremove(sourceSq, targetSq, piece)
     ELSE IF IsBlockedByAnimation
     THEN /\ last' = DropTask(sourceSq, targetSq, piece)
          /\ UNCHANGED <<currentPosition, lastPieceColour, manualDrop, premoves, premovesRef>>
     ELSE \E isValidMove \in (IF HasValidation THEN BOOLEAN ELSE {TRUE}) :
            LiveDrop(sourceSq, targetSq, piece, isValidMove)
  /\ UNCHANGED <<lifecycle, position, props, positionDifferences, previousTimeout,
                 waitingForAnimation, timers, nextTimerId, cleanupTimeout>>

\* ------------------------------------------------------ attemptPremove
\* line 205 without the comparison with newPieceColour
IsPlayablePremove_AnyColour(premove, newPieceColour) ==
  /\ PieceColour(premove.piece) # Undefined
  /\ onPieceDropLength # 0

\* line 205
IsPlayablePremove(premove, newPieceColour) ==
  /\ PieceColour(premove.piece) # Undefined
  /\ PieceColour(premove.piece) # newPieceColour
  /\ onPieceDropLength # 0

\* lines 198-221 emptying the queue when the premove is accepted
AttemptPremove_ClearsOnAccept(newPieceColour, isValidMove) ==
  LET untouched == [ lastPieceColour |-> lastPieceColour, manualDrop |-> manualDrop,
                     premoves |-> premoves, premovesRef |-> premovesRef,
                     onPieceDrop |-> <<>> ]
  IN IF Len(premovesRef) = 0 THEN untouched
     ELSE LET premove == premovesRef[1] IN
          IF IsPlayablePremove(premove, newPieceColour)
          THEN [ lastPieceColour |-> IF isValidMove THEN PieceColour(premove.piece)
                                     ELSE Undefined,
                 manualDrop |-> TRUE,
                 premoves |-> <<>>,
                 premovesRef |-> <<>>,
                 onPieceDrop |-> <<premove>> ]
          ELSE untouched

\* lines 198-221 removing only the head when the premove is refused
AttemptPremove_ShiftsOnReject(newPieceColour, isValidMove) ==
  LET untouched == [ lastPieceColour |-> lastPieceColour, manualDrop |-> manualDrop,
                     premoves |-> premoves, premovesRef |-> premovesRef,
                     onPieceDrop |-> <<>> ]
  IN IF Len(premovesRef) = 0 THEN untouched
     ELSE LET premove == premovesRef[1] IN
          IF IsPlayablePremove(premove, newPieceColour)
          THEN [ lastPieceColour |-> IF isValidMove THEN PieceColour(premove.piece)
                                     ELSE Undefined,
                 manualDrop |-> TRUE,
                 premoves |-> Tail(premovesRef),
                 premovesRef |-> Tail(premovesRef),
                 onPieceDrop |-> <<premove>> ]
          ELSE untouched

\* lines 198-221: what attemptPremove leaves behind and whether it called
\* onPieceDrop
AttemptPremove(newPieceColour, isValidMove) ==
  LET untouched == [ lastPieceColour |-> lastPieceColour, manualDrop |-> manualDrop,
                     premoves |-> premoves, premovesRef |-> premovesRef,
                     onPieceDrop |-> <<>> ]
  IN IF Len(premovesRef) = 0 THEN untouched
     ELSE LET premove == premovesRef[1] IN
          IF IsPlayablePremove(premove, newPieceColour)
          THEN IF isValidMove
               THEN [ lastPieceColour |-> PieceColour(premove.piece),
                      manualDrop |-> TRUE,
                      premoves |-> Tail(premovesRef),
                      premovesRef |-> Tail(premovesRef),
                      onPieceDrop |-> <<premove>> ]
               ELSE [ lastPieceColour |-> Undefined,
                      manualDrop |-> TRUE,
                      premoves |-> <<>>,
                      premovesRef |-> <<>>,
                      onPieceDrop |-> <<premove>> ]
          ELSE untouched

\* ------------------------------------------- the timeout of lines 128-132
\* the callback keeps the newPosition, the newPieceColour and the premoves of
\* the render whose effect scheduled it and reads the queue through
\* premovesRef; once the
\* component is unmounted React drops the state updates it requests
TimeoutFires(t) ==
  /\ t \in timers
  /\ timers' = timers \ {t}
  /\ \E isValidMove \in BOOLEAN :
       LET res == IF arePremovesAllowed THEN AttemptPremove(t.newPieceColour, isValidMove)
                  ELSE [ lastPieceColour |-> lastPieceColour, manualDrop |-> manualDrop,
                         premoves |-> premoves, premovesRef |-> premovesRef,
                         onPieceDrop |-> <<>> ]
       IN /\ premovesRef' = res.premovesRef
          /\ IF lifecycle = "mounted"
             THEN /\ currentPosition' = t.newPosition
                  /\ waitingForAnimation' = FALSE
                  /\ lastPieceColour' = res.lastPieceColour
                  /\ manualDrop' = res.manualDrop
                  /\ premoves' = res.premoves
             ELSE UNCHANGED <<currentPosition, waitingForAnimation, lastPieceColour,
                              manualDrop, premoves>>
          /\ last' = [Task("timeout") EXCEPT
                        !.timer = t.id, !.captured = t.premoves,
                        !.attemptPremove = IF arePremovesAllowed
                                           THEN <<t.newPieceColour>> ELSE <<>>,
                        !.onPieceDrop = res.onPieceDrop,
                        !.isValidMove = IF res.onPieceDrop = <<>>
                                        THEN <<>> ELSE <<isValidMove>>]
  /\ UNCHANGED <<lifecycle, position, props, positionDifferences, previousTimeout,
                 nextTimerId, cleanupTimeout>>

\* ------------------------------------------------------------- unmount
\* React runs the cleanup of the last effect run (lines 143-145)
Unmount ==
  /\ lifecycle = "mounted"
  /\ lifecycle' = "unmounted"
  /\ timers' = EffectCleanup(timers)
  /\ last' = Task("unmount")
  /\ UNCHANGED <<position, props, state, premovesRef, nextTimerId, cleanupTimeout>>

Next ==
  \/ Mount
  \/ \E p \in ExternalPositions : ExternalUpdate(p)
  \/ \E d \in DropInputs : HandleSetPosition(d[1], d[2], d[3])
  \/ ClearPremoves
  \/ \E t \in timers : TimeoutFires(t)
  \/ Unmount

Spec == Init /\ [][Next]_vars

\* ======================================================================
\* Properties of handleSetPosition
\* ======================================================================

\* the step is a call handleSetPosition(last'.sourceSq, last'.targetSq, last'.piece)
DropStep == lifecycle = "mounted" /\ last'.op = "handleSetPosition"

\* the two conditions of line 152 and the condition of line 158, on the
\* arguments of the call and the state it finds
DroppedBack == last'.sourceSq = last'.targetSq
SameColourTwice ==
  ~arePremovesAllowed /\ expectingAlternateMoves
    /\ PieceColour(last'.piece) = lastPieceColour
MustQueue ==
  arePremovesAllowed
    /\ (PieceColour(last'.piece) = lastPieceColour \/ Len(premovesRef) > 0)

\* C1: a drop back on the source square, or a second drop of the mover's
\* colour with premoves disabled and alternation expected, changes nothing
\* and calls neither onPieceDrop nor getPositionObject.
C1_IgnoredDropIsNoOp ==
  [][ (DropStep /\ (DroppedBack \/ SameColourTwice))
      => /\ UNCHANGED <<currentPosition, premoves, premovesRef, lastPieceColour,
                        manualDrop, waitingForAnimation, timers>>
         /\ last'.onPieceDrop = <<>>
         /\ last'.getPositionObject = <<>> ]_vars

\* a white drop was applied and a second white drop was then ignored
C1_Witness ==
  /\ last.op = "handleSetPosition"
  /\ last.sourceSq # last.targetSq
  /\ ~arePremovesAllowed /\ expectingAlternateMoves
  /\ lastPieceColour = "w" /\ PieceColour(last.piece) = "w"
  /\ last.getPositionObject = <<>>
  /\ manualDrop /\ ~waitingForAnimation
  /\ currentPosition["e4"] = wP

\* C2: with premoves allowed, a drop on another square of a piece of the
\* mover's colour, or made while the queue is not empty, appends exactly
\* {sourceSq, targetSq, piece} to the queue and changes neither the position,
\* the mover colour nor the manual-drop flag, and calls no onPieceDrop,
\* animation pending or not.
C2_PremoveIsQueued ==
  [][ (DropStep /\ ~DroppedBack /\ MustQueue)
      => /\ premovesRef' = Append(premovesRef,
                                  DropCall(last'.sourceSq, last'.targetSq, last'.piece))
         /\ premoves' = Append(premoves,
                               DropCall(last'.sourceSq, last'.targetSq, last'.piece))
         /\ UNCHANGED <<currentPosition, lastPieceColour, manualDrop>>
         /\ last'.onPieceDrop = <<>> ]_vars

\* a drop of the other colour joined a queue that was not empty, during an
\* animation
C2_Witness ==
  /\ last.op = "handleSetPosition"
  /\ arePremovesAllowed
  /\ Len(premovesRef) = 2
  /\ premovesRef[2] = DropCall(last.sourceSq, last.targetSq, last.piece)
  /\ PieceColour(last.piece) # lastPieceColour
  /\ last.waiting

\* the drop is live: not ignored, not queued, no animation pending
LiveStep ==
  DropStep /\ ~DroppedBack /\ ~SameColourTwice /\ ~MustQueue /\ ~waitingForAnimation

\* C3: a live drop without validation callback empties the source square
\* (unless the source is 'spare'), puts the piece on the target, leaves every
\* other square alone, adopts the result at once without animation, sets the
\* manual-drop flag and the mover colour, and reports the result to
\* getPositionObject.
C3_DirectDrop ==
  [][ (LiveStep /\ onPieceDropLength = 0)
      => /\ currentPosition' =
              [k \in Keys |->
                 IF k = last'.targetSq THEN last'.piece
                 ELSE IF last'.sourceSq # Spare /\ k = last'.sourceSq THEN Empty
                 ELSE currentPosition[k]]
         /\ manualDrop'
         /\ lastPieceColour' = PieceColour(last'.piece)
         /\ last'.getPositionObject = <<currentPosition'>>
         /\ last'.onPieceDrop = <<>>
         /\ UNCHANGED <<waitingForAnimation, timers>> ]_vars

\* the pawn went from e2 to e4 by a direct drop
C3_Witness ==
  /\ last.op = "handleSetPosition"
  /\ onPieceDropLength = 0
  /\ last.sourceSq = "e2" /\ last.targetSq = "e4"
  /\ currentPosition["e2"] = Empty /\ currentPosition["e4"] = wP
  /\ currentPosition["e7"] = bP
  /\ last.getPositionObject = <<currentPosition>>
  /\ manualDrop /\ lastPieceColour = "w" /\ ~waitingForAnimation

\* C4: with a validation callback handleSetPosition never changes the current
\* position, and after a live drop the callback refused the queue is empty.
C4_DelegatedDrop ==
  [][ (DropStep /\ onPieceDropLength > 0)
      => /\ currentPosition' = currentPosition
         /\ (LiveStep => last'.onPieceDrop =
                           <<DropCall(last'.sourceSq, last'.targetSq, last'.piece)>>)
         /\ (LiveStep /\ last'.isValidMove = <<FALSE>>
               => premovesRef' = <<>> /\ premoves' = <<>>) ]_vars

\* the callback refused a live drop
C4_Witness ==
  /\ last.op = "handleSetPosition"
  /\ onPieceDropLength > 0
  /\ last.onPieceDrop = <<DropCall(last.sourceSq, last.targetSq, last.piece)>>
  /\ last.isValidMove = <<FALSE>>
  /\ premovesRef = <<>> /\ premoves = <<>>
  /\ last.getPositionObject = <<currentPosition>>

\* C5: while waitingForAnimation is true no call of handleSetPosition changes
\* the position, the manual-drop flag or the mover colour or calls
\* onPieceDrop, and the position stays as it is until the timeout fires or
\* another external update arrives.
C5_NoDropWhileAnimating ==
  [][ (lifecycle = "mounted" /\ waitingForAnimation)
      => /\ (last'.op = "handleSetPosition"
               => /\ UNCHANGED <<currentPosition, manualDrop, lastPieceColour>>
                  /\ last'.onPieceDrop = <<>>)
         /\ (last'.op \notin {"timeout", "externalUpdate"}
               => currentPosition' = currentPosition) ]_vars

\* a drop that was neither ignored nor queued was refused during an animation
C5_Witness ==
  /\ last.op = "handleSetPosition"
  /\ last.waiting /\ waitingForAnimation
  /\ last.sourceSq # last.targetSq
  /\ ~arePremovesAllowed
  /\ PieceColour(last.piece) # lastPieceColour
  /\ timers # {}

\* ======================================================================
\* Properties of the effect on [position] and of its timeout
\* ======================================================================

\* the step is a run of the effect for the position in position'
EffectStep == last'.op \in {"mount", "externalUpdate"}

\* the step is the firing of a timeout while the component is mounted
CommitStep == lifecycle = "mounted" /\ last'.op = "timeout"

\* C6: an update that arrives while nothing is animated and manualDrop is
\* false leaves the position as it is, records the differences, sets
\* waitingForAnimation and schedules one timeout that holds the update's
\* position and a colour read from its differences; when a timeout fires the
\* position becomes the supplied one, waitingForAnimation becomes false, and
\* attemptPremove is called once with the colour the timeout holds exactly
\* when arePremovesAllowed.
C6_AnimatedUpdate ==
  [][ /\ (EffectStep /\ ~waitingForAnimation /\ ~manualDrop)
         => /\ currentPosition' = currentPosition
            /\ positionDifferences' = getPositionDifferences(currentPosition, position')
            /\ waitingForAnimation'
            /\ \E t \in timers' :
                 /\ timers' = {t}
                 /\ t \notin timers
                 /\ t.newPosition = position'
                 /\ t.newPieceColour \in NewPieceColourChoices(positionDifferences')
      /\ CommitStep
         => /\ currentPosition' = position
            /\ ~waitingForAnimation'
            /\ \E t \in timers :
                 /\ t.id = last'.timer
                 /\ t.newPosition = position
                 /\ last'.attemptPremove =
                      IF arePremovesAllowed THEN <<t.newPieceColour>> ELSE <<>> ]_vars

\* the timeout of an update that moved a white pawn fired and the black
\* premove at the head of the queue was tried
C6_Witness ==
  /\ last.op = "timeout"
  /\ lifecycle = "mounted"
  /\ last.waiting /\ ~waitingForAnimation
  /\ currentPosition = position
  /\ last.attemptPremove = <<"w">>
  /\ Len(last.onPieceDrop) = 1
  /\ PieceColour(last.onPieceDrop[1].piece) = "b"

\* C7: an update that arrives during an animation cancels the pending
\* timeout, so that nothing is left to fire, becomes the current position at
\* once and ends the animation without a new timeout.
C7_UpdateSupersedesAnimation ==
  [][ (lifecycle = "mounted" /\ last'.op = "externalUpdate" /\ waitingForAnimation)
      => /\ currentPosition' = position'
         /\ ~waitingForAnimation'
         /\ timers' = {}
         /\ nextTimerId' = nextTimerId ]_vars

\* a second update replaced a first one whose timeout had not fired
C7_Witness ==
  /\ last.op = "externalUpdate"
  /\ last.waiting
  /\ ~waitingForAnimation
  /\ timers = {}
  /\ previousTimeout # NoTimeout
  /\ currentPosition = position
  /\ position # StartPosition

\* C8: an update that arrives after a manual drop, with nothing animated, is
\* adopted at once without animation or timeout, and manualDrop is false
\* after every run of the effect.
C8_ManualDropIsOneShot ==
  [][ /\ (lifecycle = "mounted" /\ last'.op = "externalUpdate"
            /\ ~waitingForAnimation /\ manualDrop)
         => /\ currentPosition' = position'
            /\ ~waitingForAnimation'
            /\ timers' = {}
            /\ nextTimerId' = nextTimerId
      /\ EffectStep => ~manualDrop' ]_vars

\* an update confirmed a manual drop and was adopted without animation
C8_Witness ==
  /\ last.op = "externalUpdate"
  /\ last.manual /\ ~last.waiting
  /\ ~manualDrop
  /\ ~waitingForAnimation
  /\ timers = {}
  /\ currentPosition = position

\* C9: after the unmount no timeout of the effect fires.
C9_UnmountCancelsCommit ==
  ~(lifecycle = "unmounted" /\ last.op = "timeout")

\* C10: at most one timeout is pending, it holds the position supplied last,
\* and a timeout pending on a mounted component means an animation is
\* awaited.
C10_OneCommitOutstanding ==
  /\ Cardinality(timers) <= 1
  /\ \A t \in timers :
       /\ t.newPosition = position
       /\ t.id = previousTimeout
       /\ lifecycle = "mounted" => waitingForAnimation

\* a timeout was scheduled after an earlier one had been cancelled
C10_Witness ==
  /\ last.op = "externalUpdate"
  /\ waitingForAnimation
  /\ \E t \in timers : t.id = 2 /\ t.newPosition = position

\* ======================================================================
\* Properties of attemptPremove and clearPremoves
\* ======================================================================

\* the step is the firing of a timeout whose callback calls attemptPremove
AttemptStep == last'.op = "timeout" /\ last'.attemptPremove # <<>>

\* the head of the queue can be played: the conditions of lines 199 and 205 on
\* the state attemptPremove finds and the colour it is given
HeadIsPlayable ==
  /\ Len(premovesRef) > 0
  /\ PieceColour(premovesRef[1].piece) # last'.attemptPremove[1]
  /\ onPieceDropLength > 0

\* C11: attemptPremove calls onPieceDrop exactly when the queue is not empty,
\* the piece of its head has another colour than newPieceColour and
\* onPieceDrop has parameters; otherwise it leaves the queue, the mover
\* colour and the manual-drop flag alone and calls nothing.
C11_AttemptOnlyPlayableHead ==
  [][ AttemptStep
      => /\ (last'.onPieceDrop # <<>>) <=> HeadIsPlayable
         /\ ~HeadIsPlayable
              => /\ UNCHANGED <<premoves, premovesRef, lastPieceColour, manualDrop>>
                 /\ last'.isValidMove = <<>>
                 /\ lifecycle = "mounted" => currentPosition' = position ]_vars

\* attemptPremove found a head of the colour that just moved and left it
C11_Witness ==
  /\ last.op = "timeout"
  /\ lifecycle = "mounted"
  /\ onPieceDropLength > 0
  /\ Len(premovesRef) > 0
  /\ last.attemptPremove = <<PieceColour(premovesRef[1].piece)>>
  /\ last.onPieceDrop = <<>>
  /\ last.queued = Len(premovesRef)

\* C12: when onPieceDrop accepts the head, exactly the head leaves the queue,
\* the mover colour becomes the colour of its piece and manualDrop becomes
\* true.
C12_AcceptedPremove ==
  [][ (AttemptStep /\ lifecycle = "mounted" /\ last'.isValidMove = <<TRUE>>)
      => /\ last'.onPieceDrop = <<premovesRef[1]>>
         /\ premovesRef' = Tail(premovesRef)
         /\ premoves' = Tail(premoves)
         /\ lastPieceColour' = PieceColour(premovesRef[1].piece)
         /\ manualDrop' ]_vars

\* the head of a queue of two was accepted and the second entry is now first
C12_Witness ==
  /\ last.op = "timeout"
  /\ lifecycle = "mounted"
  /\ last.isValidMove = <<TRUE>>
  /\ last.queued = 2
  /\ Len(premovesRef) = 1
  /\ premovesRef[1] # last.onPieceDrop[1]
  /\ lastPieceColour = PieceColour(last.onPieceDrop[1].piece)
  /\ manualDrop

\* C13: when onPieceDrop refuses the head the whole queue is emptied, so that
\* none of its entries is left to be tried, and the position is the one the
\* timeout committed.
C13_RejectedPremove ==
  [][ (AttemptStep /\ last'.isValidMove = <<FALSE>>)
      => /\ last'.onPieceDrop = <<premovesRef[1]>>
         /\ premovesRef' = <<>>
         /\ lifecycle = "mounted"
              => premoves' = <<>> /\ currentPosition' = position ]_vars

\* the head of a queue of two was refused and the queue is empty
C13_Witness ==
  /\ last.op = "timeout"
  /\ lifecycle = "mounted"
  /\ last.isValidMove = <<FALSE>>
  /\ last.queued = 2
  /\ premovesRef = <<>> /\ premoves = <<>>
  /\ currentPosition = position

\* C14: clearPremoves sets the mover colour to undefined and empties the
\* queue, and leaves the position, the manual-drop flag, the animating flag
\* and the pending timeout alone.
C14_ClearPremovesFrame ==
  [][ (last'.op = "clearPremoves")
      => /\ lastPieceColour' = Undefined
         /\ premovesRef' = <<>>
         /\ premoves' = <<>>
         /\ UNCHANGED <<currentPosition, positionDifferences, manualDrop,
                        waitingForAnimation, previousTimeout, timers,
                        cleanupTimeout, position, lifecycle>> ]_vars

\* a queue of two and a mover colour were cleared during an animation
C14_Witness ==
  /\ last.op = "clearPremoves"
  /\ last.queued = 2
  /\ premovesRef = <<>> /\ premoves = <<>>
  /\ lastPieceColour = Undefined
  /\ waitingForAnimation /\ timers # {}

\* ======================================================================
\* Properties of the mover colour and of drops outside the board
\* ======================================================================

\* the squares the update in position' adds to the current position
AddedByUpdate ==
  ObjectKeys(getPositionDifferences(currentPosition, position').added)

\* the update is animated and line 121 lets it set the mover colour
ColourIsOverridden ==
  /\ ~waitingForAnimation /\ ~manualDrop
  /\ position' # StartPosition
  /\ lastPieceColour # Undefined

\* C15 as stated: an update that adds more than two squares leaves the mover
\* colour as it was, in every branch.
C15_ManyAddedKeepsColour ==
  [][ (EffectStep /\ Cardinality(AddedByUpdate) > 2)
      => lastPieceColour' = lastPieceColour ]_vars

\* C15, amended: an update that adds more than two squares sets the mover
\* colour to undefined when it is animated, its position differs from the
\* start layout and a mover colour was established, and leaves the mover
\* colour as it was in every other case.
C15_ManyAddedResetsColour ==
  [][ (EffectStep /\ Cardinality(AddedByUpdate) > 2)
      => lastPieceColour' = IF ColourIsOverridden THEN Undefined
                            ELSE lastPieceColour ]_vars

\* an animated update that added three squares reset an established colour
C15_Witness ==
  /\ last.op = "externalUpdate"
  /\ ~last.waiting /\ ~last.manual
  /\ last.mover # Undefined
  /\ Cardinality(ObjectKeys(positionDifferences.added)) > 2
  /\ waitingForAnimation
  /\ lastPieceColour = Undefined

\* C16: with dropOffBoardAction 'snapback' and no validation callback a live
\* drop outside the board leaves the position as it was, and no key of the
\* position is anything but a square.
C16_SnapbackRestoresPosition ==
  [][ (LiveStep /\ onPieceDropLength = 0 /\ dropOffBoardAction = "snapback"
         /\ last'.targetSq = OffBoard)
      => /\ currentPosition' = currentPosition
         /\ ObjectKeys(currentPosition') \subseteq Squares ]_vars

\* C17: a run of the effect changes the mover colour only when nothing is
\* animated, manualDrop is false, the new position differs from the start
\* layout and a mover colour was established.
C17_ColourChangesOnlyWhenAnimated ==
  [][ (EffectStep /\ lastPieceColour' # lastPieceColour) => ColourIsOverridden ]_vars

\* an animated update took the mover colour from white to black
C17_Witness ==
  /\ last.op = "externalUpdate"
  /\ ~last.waiting /\ ~last.manual
  /\ last.mover = "w"
  /\ lastPieceColour = "b"
  /\ position # StartPosition
  /\ waitingForAnimation

\* ======================================================================
\* Properties of the premove queue
\* ======================================================================

\* C18: the queue changes only by the append of the dropped entry at its
\* tail, by the removal of its head when the premove is accepted, or by
\* becoming empty on clearPremoves or on a refusal; a timeout passes at most
\* one entry to onPieceDrop, the head of the queue at that moment.
C18_QueueIsFifo ==
  [][ /\ \/ premovesRef' = premovesRef
         \/ /\ last'.op = "handleSetPosition"
            /\ premovesRef' = Append(premovesRef,
                                     DropCall(last'.sourceSq, last'.targetSq, last'.piece))
         \/ /\ last'.op = "timeout" /\ last'.isValidMove = <<TRUE>>
            /\ premovesRef # <<>>
            /\ premovesRef' = Tail(premovesRef)
         \/ /\ last'.op = "clearPremoves" \/ last'.isValidMove = <<FALSE>>
            /\ premovesRef' = <<>>
      /\ last'.op = "timeout"
           => last'.onPieceDrop = <<>>
                \/ (premovesRef # <<>> /\ last'.onPieceDrop = <<premovesRef[1]>>)
      /\ lifecycle = "mounted" => premoves' = premovesRef' ]_vars

\* a second, different entry was appended behind the first outside an
\* animation
C18_Witness ==
  /\ last.op = "handleSetPosition"
  /\ last.queued = 1 /\ ~last.waiting
  /\ Len(premovesRef) = 2
  /\ premovesRef[2] = DropCall(last.sourceSq, last.targetSq, last.piece)
  /\ premovesRef[1] # premovesRef[2]
  /\ premoves = premovesRef

\* the head of the queue shown in premoves can be played
ShownHeadIsPlayable ==
  /\ Len(premoves) > 0
  /\ PieceColour(premoves[1].piece) # last'.attemptPremove[1]
  /\ onPieceDropLength > 0

\* C19: the attemptPremove of a timeout works on the queue as it is when the
\* timeout fires, whatever it was when the timeout was scheduled: the head of
\* the queue of that moment is tried when it is playable, and nothing is
\* tried when the queue is by then empty.
C19_CommitSeesLatestQueue ==
  [][ (AttemptStep /\ lifecycle = "mounted")
      => last'.onPieceDrop = IF ShownHeadIsPlayable THEN <<premoves[1]>> ELSE <<>> ]_vars

\* a premove appended after the timeout was scheduled was tried by it
C19_Witness ==
  /\ last.op = "timeout"
  /\ lifecycle = "mounted"
  /\ last.captured = <<>>
  /\ last.queued > 0
  /\ Len(last.onPieceDrop) = 1

\* C20: after an attempt that onPieceDrop refuses manualDrop is still false.
C20_RefusedPremoveKeepsFlag ==
  [][ (AttemptStep /\ lifecycle = "mounted" /\ last'.isValidMove = <<FALSE>>)
      => ~manualDrop' ]_vars

====
